---- MODULE Spec2Model ----
(***************************************************************************)
(* RuralCare: document integrity verification and ledger anchoring.        *)
(*                                                                         *)
(* The model follows patient_portal/prescription_verification.py (scan     *)
(* classification, text extraction, the verification decision),            *)
(* patient_portal/prescription_views.py (prescription anchoring and the    *)
(* two verification views), fix_prescription_hashes.py and                 *)
(* patient_portal/consultation_views.py (the two-write token flow).        *)
(*                                                                         *)
(* Strings of the program that the code only compares are kept as tagged   *)
(* tuples: the empty string '' is <<>>, SHA-256 of x is <<"sha256", x>>,   *)
(* a transaction reference is <<"tx", n>>.                                 *)
(***************************************************************************)
EXTENDS Integers, Sequences, FiniteSets, TLC

VARIABLES
    doc,          \* the uploaded document of a verification call
    env,          \* what the collaborators of a verification call answer
    prescription, \* the prescription record of the record store
    vres,         \* outcome of the last verification call
    token,        \* the consultation token record of the record store
    ledger,       \* the writes the ledger accepted, oldest first
    dl,           \* the download_consultation_token request in progress
    clock,        \* the minute shown in a rendered token's footer
    hist,         \* what the flows did, for the properties
    reqs          \* the verification requests in progress side by side

vars == <<doc, env, prescription, vres, token, ledger, dl, clock, hist, reqs>>

(***************************************************************************)
(* Bounds of the model.                                                    *)
(***************************************************************************)
MaxPages == 3      \* pages of a document given to detect_if_scanned
MaxImages == 2     \* embedded images of one page
MaxContent == 2    \* distinct uploaded byte streams
MaxOps == 3        \* handler calls in one run
MaxClock == 1      \* minute ticks in one run
MaxRender == 2     \* distinct renders of the prescription
MaxRequests == 2   \* verification requests in progress at the same time
MaxImagePages == 2 \* pages of a document given to extract_images_hash
MaxImageKinds == 2 \* distinct raster images
MaxIds == 3        \* ids printed in the text of a document

(***************************************************************************)
(* Program constants.                                                      *)
(***************************************************************************)
PageTextThreshold == 100   \* len(text.strip()) < 100
AvgTextThreshold == 200    \* total_text_length / pages < 200
MatchThreshold == 70       \* match_percentage >= 70
MedSlice == 3              \* prescription.medicines.all()[:3]
MaxMeds == MedSlice + 1    \* medicines of a prescription: below, at and above the slice

Max(a, b) == IF a >= b THEN a ELSE b
Min(a, b) == IF a <= b THEN a ELSE b

RECURSIVE SumSeq(_)
SumSeq(s) == IF s = <<>> THEN 0 ELSE Head(s) + SumSeq(Tail(s))

SeqsUpTo(S, n) == UNION {[1..k -> S] : k \in 0..n}

(***************************************************************************)
(* Fingerprints.                                                           *)
(***************************************************************************)
EmptyStr == <<>>

\* hashlib.sha256(pdf_content).hexdigest(): one digest per byte stream,
\* different streams have different digests, and no digest is ''.
compute_pdf_hash(pdf_content) == <<"sha256", pdf_content>>

RawBytes(n) == <<"raw", n>>

(***************************************************************************)
(* Documents.  A page is what PyMuPDF and the OCR collaborator say of it:  *)
(* len is len(page.get_text().strip()), images is len(page.get_images()),  *)
(* words are the scored strings that occur in the page's text (embedded    *)
(* text when len > 0, the OCR text otherwise), ocr is what OCR does with   *)
(* the page when it runs.                                                  *)
(***************************************************************************)
TextLens == {0, 99, 100, 400}

OcrOutcomes == {"render_error", "error", "blank", "text"}

PatientName == <<"patient", 0>>
DoctorName == <<"doctor", 0>>
RxIdStr == <<"id", 0>>
MedName(i) == <<"med", i>>

Fields == {PatientName, DoctorName, RxIdStr} \cup {MedName(i) : i \in 1..MaxMeds}

MkPage(l, n, o, w) == [len |-> l, images |-> n, ocr |-> o, words |-> w]

\* A document: readable is whether reading the upload succeeds
\* (extract_pdf_content), opens whether fitz.open and the page analysis do.
\* idtext lists the prescription ids printed in the text, in reading order, each
\* with the form it is printed in (after the label, bare, or broken by spaces).
MkDoc(c, r, o, ps, ids) ==
    [content |-> c, readable |-> r, opens |-> o, pages |-> ps, idtext |-> ids]

extract_pdf_content(d) == d.content

(***************************************************************************)
(* detect_if_scanned                                                       *)
(***************************************************************************)
ImageHeavy(p) == p.len < PageTextThreshold /\ p.images > 0

image_pages(d) == Cardinality({i \in 1..Len(d.pages) : ImageHeavy(d.pages[i])})

total_text_length(d) == SumSeq([i \in 1..Len(d.pages) |-> d.pages[i].len])

total_images(d) == SumSeq([i \in 1..Len(d.pages) |-> d.pages[i].images])

\* the threshold taken as >= 0.5
MostlyImagePages_AtLeastHalf(d) == 2 * image_pages(d) >= Max(Len(d.pages), 1)

\* image_pages / max(total_pages, 1) > 0.5, on the integers
MostlyImagePages(d) == 2 * image_pages(d) > Max(Len(d.pages), 1)

\* the average alone, without the test for an image
LittleTextWithImages_TextOnly(d) ==
    total_text_length(d) < AvgTextThreshold * Max(Len(d.pages), 1)

\* the average compared with <= 200
LittleTextWithImages_AtMost(d) ==
    /\ total_text_length(d) <= AvgTextThreshold * Max(Len(d.pages), 1)
    /\ total_images(d) > 0

\* total_text_length / max(total_pages, 1) < 200 and total_images > 0
LittleTextWithImages(d) ==
    /\ total_text_length(d) < AvgTextThreshold * Max(Len(d.pages), 1)
    /\ total_images(d) > 0

detect_if_scanned(d) ==
    IF ~d.readable \/ ~d.opens
    THEN [is_scanned |-> FALSE, error |-> TRUE]
    ELSE [is_scanned |-> MostlyImagePages(d) \/ LittleTextWithImages(d),
          error |-> FALSE]

(***************************************************************************)
(* extract_text_from_pdf.  all_text is the list of page texts; a text is   *)
(* kept as the page it comes from, how it was obtained and the scored      *)
(* strings in it.  "\n".join(all_text) is '' exactly when the list is      *)
(* empty, since only texts with text.strip() non-empty are appended.       *)
(***************************************************************************)
PageText(i, src, p) == [page |-> i, src |-> src, words |-> p.words]

\* One turn of the loop over the pages: st is [all_text, method].
ExtractPage(st, i, p, ocr_available) ==
    IF p.len > 0
    THEN [st EXCEPT !.all_text = Append(@, PageText(i, "text", p))]
    ELSE IF p.ocr = "render_error" THEN st           \* get_pixmap raises
    ELSE IF ~ocr_available THEN [st EXCEPT !.method = "partial"]
    ELSE IF p.ocr = "error" THEN st                  \* image_to_string raises
    ELSE IF p.ocr = "text"
    THEN [all_text |-> Append(st.all_text, PageText(i, "ocr", p)), method |-> "ocr"]
    ELSE st

RECURSIVE ExtractFrom(_, _, _, _)
ExtractFrom(st, i, pages, ocr_available) ==
    IF i > Len(pages) THEN st
    ELSE ExtractFrom(ExtractPage(st, i, pages[i], ocr_available), i + 1, pages,
                     ocr_available)

extract_text_from_pdf(d, ocr_available) ==
    IF ~d.readable \/ ~d.opens
    THEN [text |-> <<>>, method |-> "none", error |-> TRUE]
    ELSE LET st == ExtractFrom([all_text |-> <<>>, method |-> "text"], 1, d.pages,
                               ocr_available)
         IN [text |-> st.all_text, method |-> st.method, error |-> FALSE]

TextWords(text) == UNION {text[i].words : i \in 1..Len(text)}

(***************************************************************************)
(* verify_prescription_pdf                                                 *)
(***************************************************************************)
MkResult(v, m, hm, det, uh, oh, w, sc, found, total) ==
    [verified |-> v, method |-> m, hash_match |-> hm, details |-> det,
     uploaded_hash |-> uh, original_hash |-> oh, warnings |-> w, is_scanned |-> sc,
     key_fields_found |-> found, total_key_fields |-> total]

\* the strings scored against the extracted text, in the order of the code
\* every medicine of the prescription scored
ScoredFields_AllMedicines(p) == <<PatientName, DoctorName, RxIdStr>> \o p.medicines

ScoredFields(p) ==
    <<PatientName, DoctorName, RxIdStr>>
        \o SubSeq(p.medicines, 1, Min(MedSlice, Len(p.medicines)))

KeyFieldsFound(p, text) ==
    Cardinality({i \in 1..Len(ScoredFields(p)) : ScoredFields(p)[i] \in TextWords(text)})

\* floor division in place of true division
MatchPasses_FloorDiv(found, total) ==
    (found \div Max(total, 1)) * 100 >= MatchThreshold

\* (key_fields_found / max(total_key_fields, 1)) * 100 >= 70
MatchPasses(found, total) == found * 100 >= MatchThreshold * Max(total, 1)

\* the except branch without its warning
ErrorResult_Silent(uh, oh, w, sc) ==
    MkResult(FALSE, "error", FALSE, {"error"}, uh, oh, w, sc, 0, 0)

\* the except branch: details are replaced, the warning is appended
ErrorResult(uh, oh, w, sc) ==
    MkResult(FALSE, "error", FALSE, {"error"}, uh, oh, Append(w, "error"), sc, 0, 0)

\* extract_text_from_pdf as verify_prescription_pdf gets it: the function
\* catches what goes wrong in it and returns '' with the error
ExtractedText(d, e) ==
    IF e.fault = "extract" THEN [text |-> <<>>, method |-> "none", error |-> TRUE]
    ELSE extract_text_from_pdf(d, e.ocr_available)

\* the record's names read before the extracted text is looked at
ScannedBranch_FieldsFirst(d, p, e, uh) ==
    LET ext == ExtractedText(d, e)
        w1 == <<"scanned_copy">>
        found == KeyFieldsFound(p, ext.text)
        total == Len(ScoredFields(p))
    IN IF e.fault = "fields"
       THEN ErrorResult(uh, p.pdf_hash, w1, TRUE)
       ELSE IF ext.text = <<>>
       THEN MkResult(FALSE, "ocr_failed", FALSE, {"scan_info", "extraction"}, uh,
                     p.pdf_hash, Append(w1, "ocr_failed"), TRUE, 0, 0)
       ELSE IF MatchPasses(found, total)
       THEN MkResult(TRUE, "content_match", FALSE,
                     {"scan_info", "extraction", "content_match"}, uh, p.pdf_hash,
                     Append(w1, "hash_differs_due_to_scanning"), TRUE, found, total)
       ELSE MkResult(FALSE, "content_mismatch", FALSE,
                     {"scan_info", "extraction", "content_match"}, uh, p.pdf_hash,
                     Append(w1, "content_does_not_match"), TRUE, found, total)

ScannedBranch(d, p, e, uh) ==
    LET ext == ExtractedText(d, e)
        w1 == <<"scanned_copy">>
        found == KeyFieldsFound(p, ext.text)
        total == Len(ScoredFields(p))
    IN IF ext.text = <<>>
       THEN MkResult(FALSE, "ocr_failed", FALSE, {"scan_info", "extraction"}, uh,
                     p.pdf_hash, Append(w1, "ocr_failed"), TRUE, 0, 0)
       ELSE IF e.fault = "fields"
       THEN ErrorResult(uh, p.pdf_hash, w1, TRUE)
       ELSE IF MatchPasses(found, total)
       THEN MkResult(TRUE, "content_match", FALSE,
                     {"scan_info", "extraction", "content_match"}, uh, p.pdf_hash,
                     Append(w1, "hash_differs_due_to_scanning"), TRUE, found, total)
       ELSE MkResult(FALSE, "content_mismatch", FALSE,
                     {"scan_info", "extraction", "content_match"}, uh, p.pdf_hash,
                     Append(w1, "content_does_not_match"), TRUE, found, total)

HashMatches(p, uh) == p.pdf_hash # EmptyStr /\ uh = p.pdf_hash

\* the scan check placed before the hash comparison
verify_prescription_pdf_ScanFirst(d, p, e) ==
    IF ~d.readable
    THEN ErrorResult(EmptyStr, p.pdf_hash, <<>>, FALSE)
    ELSE LET uh == compute_pdf_hash(extract_pdf_content(d))
         IN IF detect_if_scanned(d).is_scanned
            THEN ScannedBranch(d, p, e, uh)
            ELSE IF HashMatches(p, uh)
            THEN MkResult(TRUE, "exact_hash", TRUE, {"message"}, uh, p.pdf_hash,
                          <<>>, FALSE, 0, 0)
            ELSE MkResult(FALSE, "hash_mismatch", FALSE, {"scan_info", "message"}, uh,
                          p.pdf_hash, <<"modified_after_creation">>, FALSE, 0, 0)

\* the content check tried for every mismatching document that yields text
verify_prescription_pdf_NoScanCheck(d, p, e) ==
    IF ~d.readable
    THEN ErrorResult(EmptyStr, p.pdf_hash, <<>>, FALSE)
    ELSE LET uh == compute_pdf_hash(extract_pdf_content(d))
         IN IF HashMatches(p, uh)
            THEN MkResult(TRUE, "exact_hash", TRUE, {"message"}, uh, p.pdf_hash,
                          <<>>, FALSE, 0, 0)
            ELSE IF detect_if_scanned(d).is_scanned
                    \/ extract_text_from_pdf(d, e.ocr_available).text # <<>>
            THEN ScannedBranch(d, p, e, uh)
            ELSE MkResult(FALSE, "hash_mismatch", FALSE, {"scan_info", "message"}, uh,
                          p.pdf_hash, <<"modified_after_creation">>, FALSE, 0, 0)

verify_prescription_pdf(d, p, e) ==
    IF ~d.readable
    THEN ErrorResult(EmptyStr, p.pdf_hash, <<>>, FALSE)
    ELSE LET uh == compute_pdf_hash(extract_pdf_content(d))
         IN IF HashMatches(p, uh)
            THEN MkResult(TRUE, "exact_hash", TRUE, {"message"}, uh, p.pdf_hash,
                          <<>>, FALSE, 0, 0)
            ELSE IF detect_if_scanned(d).is_scanned
            THEN ScannedBranch(d, p, e, uh)
            ELSE MkResult(FALSE, "hash_mismatch", FALSE, {"scan_info", "message"}, uh,
                          p.pdf_hash, <<"modified_after_creation">>, FALSE, 0, 0)

(***************************************************************************)
(* get_prescription_by_id_from_pdf: three patterns, the first that matches *)
(* decides.  NoId is None.                                                 *)
(***************************************************************************)
NoId == "none"
RxId == "rx"          \* the id of the prescription of the record store
OtherId == "other"    \* a well-formed id of no record
MalformedId == "malformed"

\* an id as the text prints it: after the label 'Prescription ID:', bare,
\* with whitespace around its hyphens, or both after the label and so broken
IdForms == {"label", "plain", "spaced", "label_spaced"}

\* the characters of an id printed with whitespace around its hyphens
Spaced(id) == IF id = RxId THEN "rx with spaces" ELSE "other with spaces"

\* re.sub(r'\s+', '', match)
StripSpaces(text) ==
    IF text = Spaced(RxId) THEN RxId
    ELSE IF text = Spaced(OtherId) THEN OtherId
    ELSE text

MkIdText(id, form) ==
    [id |-> id, form |-> form,
     text |-> IF form \in {"spaced", "label_spaced"} THEN Spaced(id) ELSE id]

\* re.search over the normalized text: the leftmost match of a pattern that
\* matches the ids printed in one of the forms
FirstOfForm(ids, forms) ==
    LET hits == {i \in 1..Len(ids) : ids[i].form \in forms}
    IN IF hits = {} THEN NoId
       ELSE ids[CHOOSE i \in hits : \A j \in hits : i <= j].text

\* the unanchored pattern tried before the labelled one
get_prescription_by_id_from_pdf_UnanchoredFirst(d) ==
    IF ~d.readable \/ ~d.opens THEN NoId
    ELSE IF FirstOfForm(d.idtext, {"label", "plain"}) # NoId
    THEN FirstOfForm(d.idtext, {"label", "plain"})
    ELSE StripSpaces(FirstOfForm(d.idtext, {"spaced", "label_spaced"}))

get_prescription_by_id_from_pdf(d) ==
    IF ~d.readable \/ ~d.opens THEN NoId
    ELSE IF FirstOfForm(d.idtext, {"label"}) # NoId
    THEN FirstOfForm(d.idtext, {"label"})
    ELSE IF FirstOfForm(d.idtext, {"label", "plain"}) # NoId
    THEN FirstOfForm(d.idtext, {"label", "plain"})
    ELSE StripSpaces(FirstOfForm(d.idtext, {"spaced", "label_spaced"}))

(***************************************************************************)
(* The ledger as a verification call sees it (blockchain_service is the    *)
(* collaborator of spec section 6): up is whether the ledger can be        *)
(* reached, probe what is_connected() answers, lookup what                 *)
(* verify_prescription_hash does.                                          *)
(***************************************************************************)
LedgerViews ==
    [up : {FALSE}, probe : BOOLEAN, lookup : {"raises", "nothing"}]
        \cup [up : {TRUE}, probe : {TRUE}, lookup : {"absent", "exists_id", "exists_noid"}]

LedgerExists(lv) == lv.lookup \in {"exists_id", "exists_noid"}

(***************************************************************************)
(* Outcomes of a view: a rendered result, a rendered page, a redirect      *)
(* with a message, or an exception that leaves the view.                   *)
(***************************************************************************)
NoResult == MkResult(FALSE, "none", FALSE, {}, EmptyStr, EmptyStr, <<>>, FALSE, 0, 0)

Outcome(kind, msg, res, data) ==
    [view |-> "none", kind |-> kind, message |-> msg, result |-> res, data |-> data]

By(view, out) == [out EXCEPT !.view = view]

NoOutcome == Outcome("idle", "none", NoResult, "none")

Raised(what) == Outcome("raised", what, NoResult, "none")

(***************************************************************************)
(* verify_uploaded_prescription (POST with an accepted upload)             *)
(***************************************************************************)
\* Prescription.objects.get(id=prescription_id), DoesNotExist and ValueError caught
FoundById(p, id) == p.exists /\ id = RxId

\* Prescription.objects.get(pdf_hash=uploaded_hash)
FoundByHash(p, uh) == p.exists /\ p.pdf_hash = uh

BlockchainHashResult(uh) ==
    MkResult(TRUE, "blockchain_hash", TRUE, {"message", "prescription_id"}, uh, EmptyStr,
             <<"not_in_local_database">>, FALSE, 0, 0)

HashNotFoundResult(uh) ==
    MkResult(FALSE, "hash_not_found", FALSE, {"message"}, uh, EmptyStr,
             <<"may_be_fraudulent">>, FALSE, 0, 0)

\* the record store asked by fingerprint before the ledger
HashBasedLookup_LocalFirst(d, p, e, uh) ==
    IF ~e.ledger.probe
    THEN Outcome("redirect", "blockchain_not_available", NoResult, "none")
    ELSE IF FoundByHash(p, uh)
    THEN Outcome("result", "none", verify_prescription_pdf(d, p, e), "found_by_hash")
    ELSE IF e.ledger.lookup = "raises" THEN Raised("ledger_lookup")
    ELSE IF e.ledger.lookup = "exists_id"
    THEN Outcome("result", "none", BlockchainHashResult(uh), "exists_id")
    ELSE IF e.ledger.lookup = "exists_noid"
    THEN Outcome("redirect", "lookup_failed_enter_id", NoResult, "none")
    ELSE Outcome("result", "hash_not_on_blockchain", HashNotFoundResult(uh), "none")

\* lines 275-339: no record by id, the ledger is asked for the uploaded hash
HashBasedLookup(d, p, e, uh) ==
    IF ~e.ledger.probe
    THEN Outcome("redirect", "blockchain_not_available", NoResult, "none")
    ELSE IF e.ledger.lookup = "raises" THEN Raised("ledger_lookup")
    ELSE IF e.ledger.lookup = "exists_id"
    THEN IF e.fault = "store_hash" THEN Raised("store_by_hash")
         ELSE IF FoundByHash(p, uh)
         THEN Outcome("result", "none", verify_prescription_pdf(d, p, e), "found_by_hash")
         ELSE Outcome("result", "none", BlockchainHashResult(uh), "exists_id")
    ELSE IF e.ledger.lookup = "exists_noid"
    THEN Outcome("redirect", "lookup_failed_enter_id", NoResult, "none")
    ELSE Outcome("result", "hash_not_on_blockchain", HashNotFoundResult(uh), "none")

\* the service probed before the record is looked up by id
verify_uploaded_prescription_ProbeFirst(d, p, e) ==
    IF ~d.readable THEN Raised("read_upload")
    ELSE IF ~e.ledger.probe
    THEN Outcome("redirect", "blockchain_not_available", NoResult, "none")
    ELSE LET uh == compute_pdf_hash(extract_pdf_content(d))
             id == IF e.supplied_id # NoId THEN e.supplied_id
                   ELSE get_prescription_by_id_from_pdf(d)
         IN IF id # NoId /\ e.fault = "store_id" THEN Raised("store_by_id")
            ELSE IF id # NoId /\ FoundById(p, id)
            THEN Outcome("result", "none", verify_prescription_pdf(d, p, e), "found_by_id")
            ELSE HashBasedLookup(d, p, e, uh)

verify_uploaded_prescription(d, p, e) ==
    IF ~d.readable THEN Raised("read_upload")
    ELSE LET uh == compute_pdf_hash(extract_pdf_content(d))
             id == IF e.supplied_id # NoId THEN e.supplied_id
                   ELSE get_prescription_by_id_from_pdf(d)
         IN IF id # NoId /\ e.fault = "store_id" THEN Raised("store_by_id")
            ELSE IF id # NoId /\ FoundById(p, id)
            THEN Outcome("result", "none", verify_prescription_pdf(d, p, e), "found_by_id")
            ELSE HashBasedLookup(d, p, e, uh)

(***************************************************************************)
(* verify_prescription: the public page of one prescription                *)
(***************************************************************************)
VerifyPage(is_valid, data) ==
    Outcome("page", IF is_valid THEN "valid" ELSE "not_valid", NoResult, data)

ErrorPage == Outcome("page", "not_found_or_invalid", NoResult, "none")

\* is the ledger asked: prescription.pdf_hash and settings.BLOCKCHAIN_ENABLED
AsksLedger(p, e) == p.pdf_hash # EmptyStr /\ e.enabled

verify_prescription(p, e) ==
    IF ~p.exists \/ e.fault = "store_id" THEN ErrorPage
    ELSE IF AsksLedger(p, e) /\ e.ledger.probe /\ e.ledger.lookup = "raises" THEN ErrorPage
    ELSE IF e.fault = "fields" THEN ErrorPage
    ELSE IF AsksLedger(p, e) /\ e.ledger.probe /\ e.ledger.lookup # "nothing"
    THEN VerifyPage(LedgerExists(e.ledger), e.ledger.lookup)
    ELSE VerifyPage(FALSE, "none")

(***************************************************************************)
(* Records of the record store.                                            *)
(***************************************************************************)
MkRx(ex, h, tx, v, f, meds) ==
    [exists |-> ex, pdf_hash |-> h, blockchain_tx_hash |-> tx, is_verified |-> v,
     pdf_file |-> f, medicines |-> meds]

Medicines(m) == [i \in 1..m |-> MedName(i)]

\* ConsultationToken: pdf_file blank, pdf_hash '', blockchain_tx_hash '', is_verified False
InitToken ==
    [pdf_hash |-> EmptyStr, blockchain_tx_hash |-> EmptyStr, is_verified |-> FALSE,
     pdf_file |-> EmptyStr]

MkEnv(ocr, fault, sid, lv, en) ==
    [ocr_available |-> ocr, fault |-> fault, supplied_id |-> sid, ledger |-> lv,
     enabled |-> en]

QuietLedger == [up |-> TRUE, probe |-> TRUE, lookup |-> "absent"]
QuietEnv == MkEnv(TRUE, "none", NoId, QuietLedger, TRUE)
NoDoc == MkDoc(RawBytes(0), TRUE, TRUE, <<>>, <<>>)
NoRx == MkRx(FALSE, EmptyStr, EmptyStr, FALSE, EmptyStr, <<>>)
IdleDl == [pc |-> "idle", tok |-> InitToken, pdf_file |-> EmptyStr, pdf_hash |-> EmptyStr]

\* what the flows did: handler calls so far, the registration that succeeded
\* (its reference and confirmation flag), how the last finalization write
\* ended, the PDF the last download served, the ledger writes the download in
\* progress has called and those of them that have not returned yet
InitHist ==
    [ops |-> 0, reg_done |-> FALSE, reg_tx |-> EmptyStr, reg_confirmed |-> FALSE,
     fin |-> "none", served |-> EmptyStr, writes |-> 0, outstanding |-> 0]

\* no verification request in progress
NoReqs == <<>>

SystemIdle ==
    /\ token = InitToken
    /\ ledger = <<>>
    /\ dl = IdleDl
    /\ clock = 0
    /\ hist = InitHist
    /\ reqs = NoReqs

SystemVars == <<token, ledger, dl, clock, hist, reqs>>

(***************************************************************************)
(* SpecScan: detect_if_scanned over every document of at most MaxPages     *)
(* pages.                                                                  *)
(***************************************************************************)
ScanPages == {MkPage(l, n, "blank", {}) : l \in TextLens, n \in 0..MaxImages}

ScanDocs ==
    {MkDoc(RawBytes(1), TRUE, TRUE, ps, <<>>) : ps \in SeqsUpTo(ScanPages, MaxPages)}
        \cup {MkDoc(RawBytes(1), TRUE, FALSE, ps, <<>>) :
                ps \in {<<>>, <<MkPage(0, 1, "blank", {})>>}}

InitScan ==
    /\ doc \in ScanDocs
    /\ env = QuietEnv
    /\ prescription = NoRx
    /\ vres = NoOutcome
    /\ SystemIdle

ScanCall ==
    /\ vres = NoOutcome
    /\ vres' = By("detect_if_scanned",
                  Outcome("classified",
                          IF detect_if_scanned(doc).is_scanned THEN "scanned"
                          ELSE "not_scanned",
                          NoResult,
                          IF detect_if_scanned(doc).error THEN "error" ELSE "details"))
    /\ UNCHANGED <<doc, env, prescription, SystemVars>>

SpecScan == InitScan /\ [][ScanCall]_vars

(***************************************************************************)
(* SpecExtract: extract_text_from_pdf over every document of at most       *)
(* MaxPages pages, each with embedded text or with one of the outcomes of  *)
(* OCR, with and without pytesseract installed.                            *)
(***************************************************************************)
ExtractPages ==
    {MkPage(400, 0, "blank", {PatientName})}
        \cup {MkPage(0, 1, o, IF o = "text" THEN {DoctorName} ELSE {}) : o \in OcrOutcomes}

ExtractDocs ==
    {MkDoc(RawBytes(1), TRUE, TRUE, ps, <<>>) : ps \in SeqsUpTo(ExtractPages, MaxPages)}
        \cup {MkDoc(RawBytes(1), TRUE, FALSE, <<MkPage(400, 0, "blank", {PatientName})>>,
                    <<>>)}

InitExtract ==
    /\ doc \in ExtractDocs
    /\ env \in {MkEnv(o, "none", NoId, QuietLedger, TRUE) : o \in BOOLEAN}
    /\ prescription = NoRx
    /\ vres = NoOutcome
    /\ SystemIdle

\* the returned pair: the text as data, details['method'] as message
ExtractCall ==
    /\ vres = NoOutcome
    /\ LET ext == extract_text_from_pdf(doc, env.ocr_available)
       IN vres' = By("extract_text_from_pdf",
                     Outcome(IF ext.error THEN "error" ELSE "extracted", ext.method,
                             NoResult, ext.text))
    /\ UNCHANGED <<doc, env, prescription, SystemVars>>

SpecExtract == InitExtract /\ [][ExtractCall]_vars

(***************************************************************************)
(* SpecIds: get_prescription_by_id_from_pdf over every text with at most   *)
(* MaxIds printed ids, each in any of the forms.                           *)
(***************************************************************************)
PrintedIds == {MkIdText(id, f) : id \in {RxId, OtherId}, f \in IdForms}

IdDocs ==
    {MkDoc(RawBytes(1), TRUE, TRUE, <<MkPage(400, 0, "blank", Fields)>>, ids) : ids \in SeqsUpTo(PrintedIds, MaxIds)}
        \cup {MkDoc(RawBytes(1), TRUE, FALSE, <<>>, <<MkIdText(RxId, "label")>>)}

InitIds ==
    /\ doc \in IdDocs
    /\ env = QuietEnv
    /\ prescription = NoRx
    /\ vres = NoOutcome
    /\ SystemIdle

IdCall ==
    /\ vres = NoOutcome
    /\ vres' = By("get_prescription_by_id_from_pdf",
                  Outcome("id", get_prescription_by_id_from_pdf(doc), NoResult, "none"))
    /\ UNCHANGED <<doc, env, prescription, SystemVars>>

SpecIds == InitIds /\ [][IdCall]_vars

(***************************************************************************)
(* SpecVerifyPdf: verify_prescription_pdf over documents of at most one    *)
(* page with every set of scored strings in its text, and prescriptions    *)
(* with 0..MaxMeds medicines.                                              *)
(***************************************************************************)
VerifyLens == {0, 99, 400}
VerifyImages == {0, 1}

VerifyPages ==
    {MkPage(0, n, o, {}) : n \in VerifyImages, o \in OcrOutcomes \ {"text"}}
        \cup {MkPage(0, n, "text", w) : n \in VerifyImages, w \in SUBSET Fields}
        \cup {MkPage(l, n, "blank", w) :
                l \in VerifyLens \ {0}, n \in VerifyImages, w \in SUBSET Fields}

UploadContents == {RawBytes(n) : n \in 1..MaxContent}

VerifyDocs ==
    {MkDoc(c, TRUE, TRUE, ps, <<>>) :
        c \in UploadContents, ps \in {<<>>} \cup {<<pg>> : pg \in VerifyPages}}
        \cup {MkDoc(c, r, o, <<>>, <<>>) :
                c \in UploadContents, r \in BOOLEAN, o \in BOOLEAN}

StoredHashes == {EmptyStr, compute_pdf_hash(RawBytes(1))}

VerifyRecords ==
    {MkRx(TRUE, h, EmptyStr, FALSE, EmptyStr, Medicines(m)) :
        h \in StoredHashes, m \in 0..MaxMeds}

VerifyEnvs ==
    {MkEnv(o, f, NoId, QuietLedger, TRUE) :
        o \in BOOLEAN, f \in {"none", "fields", "extract"}}

InitVerifyPdf ==
    /\ doc \in VerifyDocs
    /\ prescription \in VerifyRecords
    /\ env \in VerifyEnvs
    /\ vres = NoOutcome
    /\ SystemIdle

VerifyPdfCall ==
    /\ vres = NoOutcome
    /\ vres' = By("verify_prescription_pdf",
                  Outcome("result", "none",
                          verify_prescription_pdf(doc, prescription, env), "none"))
    /\ UNCHANGED <<doc, env, prescription, SystemVars>>

SpecVerifyPdf == InitVerifyPdf /\ [][VerifyPdfCall]_vars

(***************************************************************************)
(* SpecUpload: the two verification views and verify_prescription_pdf over *)
(* every answer of the record store and of the ledger.  The documents are  *)
(* one of each kind that verify_prescription_pdf tells apart, with or      *)
(* without a printed id.                                                   *)
(***************************************************************************)
TextPage == MkPage(400, 0, "blank", Fields)
ScanPageLegible == MkPage(0, 1, "text", Fields)
ScanPageBlank == MkPage(0, 1, "blank", {})
ScanPageForeign == MkPage(0, 1, "text", {})

IdTexts ==
    {<<>>, <<MkIdText(RxId, "plain")>>, <<MkIdText(OtherId, "label")>>}

UploadDocs ==
    {MkDoc(c, TRUE, TRUE, ps, ids) :
        c \in UploadContents,
        ps \in {<<>>, <<TextPage>>, <<ScanPageLegible>>, <<ScanPageBlank>>,
                 <<ScanPageForeign>>},
        ids \in IdTexts}
        \cup {MkDoc(c, FALSE, TRUE, <<>>, <<>>) : c \in UploadContents}

UploadRecords ==
    {NoRx} \cup {MkRx(TRUE, h, EmptyStr, FALSE, EmptyStr, Medicines(MaxMeds)) :
                    h \in StoredHashes}

Faults == {"none", "fields", "store_id", "store_hash"}

UploadEnvs ==
    {MkEnv(TRUE, f, sid, lv, en) :
        f \in Faults, sid \in {NoId, RxId, OtherId, MalformedId},
        lv \in LedgerViews, en \in BOOLEAN}

InitUpload ==
    /\ doc \in UploadDocs
    /\ prescription \in UploadRecords
    /\ env \in UploadEnvs
    /\ vres = NoOutcome
    /\ SystemIdle

VerifyUploadedCall ==
    /\ vres = NoOutcome
    /\ vres' = By("verify_uploaded_prescription",
                  verify_uploaded_prescription(doc, prescription, env))
    /\ UNCHANGED <<doc, env, prescription, SystemVars>>

VerifyPrescriptionCall ==
    /\ vres = NoOutcome
    /\ vres' = By("verify_prescription", verify_prescription(prescription, env))
    /\ UNCHANGED <<doc, env, prescription, SystemVars>>

NextUpload == VerifyUploadedCall \/ VerifyPrescriptionCall \/ VerifyPdfCall

SpecUpload == InitUpload /\ [][NextUpload]_vars

(***************************************************************************)
(* The ledger: store_consultation_token_hash, store_prescription_hash and  *)
(* the second token write answer success (with a transaction reference),   *)
(* a result without success, or raise.  An accepted write is appended.     *)
(***************************************************************************)
NewTx == <<"tx", Len(ledger) + 1>>

\* the counterparties of the token and of the prescription, as the views
\* read them: token.doctor.id, token.patient.id
DoctorId == <<"user_id", "doctor">>
PatientId == <<"user_id", "patient">>

\* service._hash_identifier: one-way, never the identifier itself
hash_identifier(id) == <<"id_hash", id>>

\* what reaches the ledger: storeTokenHash(hash, doctor_hash, patient_hash, number, metadata)
MkWrite(kind, h, dh, ph, tx, final) ==
    [kind |-> kind, pdf_hash |-> h, doctor |-> dh, patient |-> ph, tx |-> tx,
     final |-> final]

\* blockchain_service.store_consultation_token_hash and store_prescription_hash
\* are handed the identifiers and hash them before the write (section 6)
store_consultation_token_hash(pdf_hash, patient_id, doctor_id, tx) ==
    MkWrite("token", pdf_hash, hash_identifier(doctor_id), hash_identifier(patient_id),
            tx, FALSE)

store_prescription_hash(pdf_hash, patient_id, doctor_id, tx) ==
    MkWrite("prescription", pdf_hash, hash_identifier(doctor_id),
            hash_identifier(patient_id), tx, FALSE)

\* the second write built with the identifiers as they are
FinalTokenWrite_RawIds(pdf_hash, doctor_id, patient_id, tx) ==
    MkWrite("token", pdf_hash, doctor_id, patient_id, tx, TRUE)

\* lines 461-493: the second write, built in the view, is_final_pdf_hash set
FinalTokenWrite(pdf_hash, doctor_id, patient_id, tx) ==
    MkWrite("token", pdf_hash, hash_identifier(doctor_id), hash_identifier(patient_id),
            tx, TRUE)

\* result of store_consultation_token_hash: success carries 'confirmed'
TokenWriteResults ==
    {[success |-> TRUE, confirmed |-> c, raises |-> FALSE] : c \in BOOLEAN}
        \cup {[success |-> FALSE, confirmed |-> FALSE, raises |-> r] : r \in BOOLEAN}

RxWriteResults == {"success", "rejected", "raises"}

\* second write: service missing or not connected, an exception, or sent
FinalWriteResults == {"unavailable", "raises", "sent"}

(***************************************************************************)
(* generate_consultation_token_pdf: the bytes are decided by the           *)
(* transaction hash, the status line (shown only with a transaction hash), *)
(* the printed pdf_hash and the minute of the footer.                      *)
(***************************************************************************)
TokenPdf(tok, minute) ==
    <<"token_pdf", tok.blockchain_tx_hash,
      tok.blockchain_tx_hash # EmptyStr /\ tok.is_verified, tok.pdf_hash, minute>>

EmbeddedHash(pdf) == pdf[4]

\* sha256 of "token:<id>:doctor:<id>:patient:<id>:num:<n>"
registration_hash == compute_pdf_hash(<<"token_registration">>)

(***************************************************************************)
(* download_consultation_token, one step at a time                         *)
(***************************************************************************)
\* lines 438-441
RegisterToken(tok, res, tx) ==
    IF res.success
    THEN [tok EXCEPT !.blockchain_tx_hash = tx, !.is_verified = res.confirmed]
    ELSE tok

\* registration tried on the first download only, before a file was ever saved
NeedsRegistration_FirstDownloadOnly(tok) ==
    tok.blockchain_tx_hash = EmptyStr /\ tok.pdf_file = EmptyStr

\* line 423: if not token.blockchain_tx_hash
NeedsRegistration(tok) == tok.blockchain_tx_hash = EmptyStr

\* the record given up when the second write fails
FinalizeToken_Rollback(tok, pdf_hash, res) ==
    IF res = "sent" THEN [tok EXCEPT !.pdf_hash = pdf_hash]
    ELSE [tok EXCEPT !.blockchain_tx_hash = EmptyStr, !.is_verified = FALSE]

\* the reference of an accepted second write kept on the record
FinalizeToken_KeepsSecondTx(tok, pdf_hash, res) ==
    IF res = "sent"
    THEN [tok EXCEPT !.pdf_hash = pdf_hash, !.blockchain_tx_hash = NewTx]
    ELSE [tok EXCEPT !.pdf_hash = pdf_hash]

\* lines 452-453; the outcome of the second write changes nothing in the record
FinalizeToken(tok, pdf_hash, res) == [tok EXCEPT !.pdf_hash = pdf_hash]

\* the second write tried without a transaction reference
NeedsFinalWrite_NoTxCheck(tok, pdf_hash) == tok.pdf_hash # pdf_hash

\* the second write made once only, while the record has no fingerprint
NeedsFinalWrite_FirstTimeOnly(tok, pdf_hash) ==
    tok.pdf_hash = EmptyStr /\ tok.blockchain_tx_hash # EmptyStr

\* line 451: token.pdf_hash != pdf_hash and token.blockchain_tx_hash
NeedsFinalWrite(tok, pdf_hash) ==
    tok.pdf_hash # pdf_hash /\ tok.blockchain_tx_hash # EmptyStr

\* an exception of the second write leaving the view
AfterFinalWrite_Propagates(res) == IF res = "raises" THEN "aborted" ELSE "serve"

\* lines 496-498: whatever the second write did, the view goes on to step 4
AfterFinalWrite(res) == "serve"

\* the fingerprint of the re-render stored with the file
ServedToken_StoresFinalHash(tok, final_pdf) ==
    [tok EXCEPT !.pdf_file = final_pdf, !.pdf_hash = compute_pdf_hash(final_pdf)]

\* line 502: the re-render is saved as the record's file; final_hash is not used
ServedToken(tok, final_pdf) == [tok EXCEPT !.pdf_file = final_pdf]

DownloadStart ==
    /\ dl.pc = "idle"
    /\ hist.ops < MaxOps
    /\ dl' = [pc |-> "register", tok |-> token, pdf_file |-> EmptyStr,
              pdf_hash |-> EmptyStr]
    /\ hist' = [hist EXCEPT !.ops = @ + 1, !.fin = "none", !.served = EmptyStr,
                            !.writes = 0]
    /\ UNCHANGED <<reqs, doc, env, prescription, vres, token, ledger, clock>>

\* Step 1, lines 423-437: the registration write is called when the record
\* has no transaction reference
RegisterStep ==
    /\ dl.pc = "register"
    /\ IF NeedsRegistration(dl.tok)
       THEN /\ dl' = [dl EXCEPT !.pc = "registering"]
            /\ hist' = [hist EXCEPT !.writes = @ + 1, !.outstanding = @ + 1]
       ELSE /\ dl' = [dl EXCEPT !.pc = "render"]
            /\ UNCHANGED hist
    /\ UNCHANGED <<reqs, doc, env, prescription, vres, token, ledger, clock>>

\* Step 1, lines 438-445: the call returns or raises
RegisterReturn ==
    /\ dl.pc = "registering"
    /\ \E res \in TokenWriteResults :
         LET tok2 == RegisterToken(dl.tok, res, NewTx)
         IN /\ dl' = [dl EXCEPT !.pc = "render", !.tok = tok2]
            /\ token' = IF res.success \/ res.raises THEN tok2 ELSE token
            /\ ledger' = IF res.success
                         THEN Append(ledger,
                                     store_consultation_token_hash(
                                         registration_hash, PatientId, DoctorId, NewTx))
                         ELSE ledger
            /\ hist' = IF res.success
                       THEN [hist EXCEPT !.reg_done = TRUE, !.reg_tx = NewTx,
                                         !.reg_confirmed = res.confirmed,
                                         !.outstanding = @ - 1]
                       ELSE [hist EXCEPT !.outstanding = @ - 1]
    /\ UNCHANGED <<reqs, doc, env, prescription, vres, clock>>

\* Step 2, line 448
RenderStep ==
    /\ dl.pc = "render"
    /\ dl' = [dl EXCEPT !.pc = "finalize",
                        !.pdf_file = TokenPdf(dl.tok, clock),
                        !.pdf_hash = compute_pdf_hash(TokenPdf(dl.tok, clock))]
    /\ UNCHANGED <<reqs, doc, env, prescription, vres, token, ledger, clock, hist>>

\* Step 3, lines 451-458: the fingerprint is saved, then the second write is
\* built and sent when the service is there and connected
FinalizeStep ==
    /\ dl.pc = "finalize"
    /\ IF NeedsFinalWrite(dl.tok, dl.pdf_hash)
       THEN \E available \in BOOLEAN :
              LET tok2 == [dl.tok EXCEPT !.pdf_hash = dl.pdf_hash]
              IN /\ token' = tok2
                 /\ IF available
                    THEN /\ dl' = [dl EXCEPT !.pc = "finalizing", !.tok = tok2]
                         /\ hist' = [hist EXCEPT !.writes = @ + 1,
                                                 !.outstanding = @ + 1]
                    ELSE /\ dl' = [dl EXCEPT
                                     !.pc = AfterFinalWrite("unavailable"),
                                     !.tok = FinalizeToken(tok2, dl.pdf_hash,
                                                           "unavailable")]
                         /\ hist' = [hist EXCEPT !.fin = "unavailable"]
       ELSE /\ dl' = [dl EXCEPT !.pc = "serve"]
            /\ hist' = [hist EXCEPT !.fin = "skipped"]
            /\ UNCHANGED token
    /\ UNCHANGED <<reqs, doc, env, prescription, vres, ledger, clock>>

\* Step 3, lines 459-498: the second write is accepted or raises
FinalizeReturn ==
    /\ dl.pc = "finalizing"
    /\ \E res \in FinalWriteResults \ {"unavailable"} :
         /\ dl' = [dl EXCEPT !.pc = AfterFinalWrite(res),
                             !.tok = FinalizeToken(dl.tok, dl.pdf_hash, res)]
         /\ ledger' = IF res = "sent"
                      THEN Append(ledger,
                                  FinalTokenWrite(dl.pdf_hash, DoctorId, PatientId, NewTx))
                      ELSE ledger
         /\ hist' = [hist EXCEPT !.fin = res, !.outstanding = @ - 1]
    /\ UNCHANGED <<reqs, doc, env, prescription, vres, token, clock>>

\* Step 4, lines 501-509
ServeStep ==
    /\ dl.pc = "serve"
    /\ LET final_pdf == TokenPdf(dl.tok, clock)
       IN /\ token' = ServedToken(dl.tok, final_pdf)
          /\ hist' = [hist EXCEPT !.served = final_pdf]
    /\ dl' = IdleDl
    /\ UNCHANGED <<reqs, doc, env, prescription, vres, ledger, clock>>

\* the minute of the footer's "Generated on" moves on
Tick ==
    /\ clock < MaxClock
    /\ clock' = clock + 1
    /\ UNCHANGED <<reqs, doc, env, prescription, vres, token, ledger, dl, hist>>

(***************************************************************************)
(* generate_prescription_pdf, fix_prescription_hashes, edit_prescription   *)
(***************************************************************************)
\* prescription_pdf.generate_prescription_pdf(prescription, include_qr=True):
\* what it renders is not decided by the record alone
RxPdf(r) == <<"rx_pdf", r>>

\* lines 105-107 of the view, 42-44 of the script
SaveRender(p, pdf) == [p EXCEPT !.pdf_file = pdf, !.pdf_hash = compute_pdf_hash(pdf)]

\* lines 119-122 of the view, 56-59 of the script
MarkAnchored(p, tx) == [p EXCEPT !.blockchain_tx_hash = tx, !.is_verified = TRUE]

GeneratePrescriptionPdf ==
    /\ dl.pc = "idle"
    /\ hist.ops < MaxOps
    /\ prescription.exists
    /\ \E r \in 1..MaxRender, res \in RxWriteResults :
         LET p1 == SaveRender(prescription, RxPdf(r))
             stored == env.enabled /\ res = "success"
         IN /\ prescription' = IF stored THEN MarkAnchored(p1, NewTx) ELSE p1
            /\ ledger' = IF stored
                         THEN Append(ledger,
                                     store_prescription_hash(p1.pdf_hash, PatientId,
                                                             DoctorId, NewTx))
                         ELSE ledger
    /\ hist' = [hist EXCEPT !.ops = @ + 1]
    /\ UNCHANGED <<reqs, doc, env, vres, token, dl, clock>>

FixPrescriptionHashes ==
    /\ dl.pc = "idle"
    /\ hist.ops < MaxOps
    /\ prescription.exists
    /\ prescription.pdf_file # EmptyStr
    /\ \E r \in 1..MaxRender, res \in RxWriteResults :
         LET p1 == SaveRender(prescription, RxPdf(r))
             stored == /\ env.enabled
                       /\ p1.pdf_hash # prescription.pdf_hash
                       /\ res = "success"
         IN /\ prescription' = IF stored THEN MarkAnchored(p1, NewTx) ELSE p1
            /\ ledger' = IF stored
                         THEN Append(ledger,
                                     store_prescription_hash(p1.pdf_hash, PatientId,
                                                             DoctorId, NewTx))
                         ELSE ledger
    /\ hist' = [hist EXCEPT !.ops = @ + 1]
    /\ UNCHANGED <<reqs, doc, env, vres, token, dl, clock>>

\* the record is left alone: an error message and a redirect
EditPrescription ==
    /\ dl.pc = "idle"
    /\ hist.ops < MaxOps
    /\ prescription.exists
    /\ hist' = [hist EXCEPT !.ops = @ + 1]
    /\ UNCHANGED <<reqs, doc, env, prescription, vres, token, ledger, dl, clock>>

(***************************************************************************)
(* A verification call against the record store and the ledger as they     *)
(* are: the upload is the stored prescription file or another byte stream. *)
(***************************************************************************)
OnLedger(h) == \E i \in 1..Len(ledger) : ledger[i].kind = "prescription" /\ ledger[i].pdf_hash = h

LedgerViewOf(h, up) ==
    IF ~up THEN [up |-> FALSE, probe |-> FALSE, lookup |-> "raises"]
    ELSE [up |-> TRUE, probe |-> TRUE,
          lookup |-> IF OnLedger(h) THEN "exists_id" ELSE "absent"]

SystemUploads ==
    {MkDoc(c, TRUE, TRUE, <<>>, <<>>) :
        c \in {RxPdf(r) : r \in 1..MaxRender}}

VerifyUpload ==
    /\ dl.pc = "idle"
    /\ hist.ops < MaxOps
    /\ \E d \in SystemUploads, sid \in {NoId, RxId}, up \in BOOLEAN :
         LET e == [env EXCEPT !.supplied_id = sid,
                              !.ledger = LedgerViewOf(compute_pdf_hash(d.content), up)]
         IN /\ doc' = d
            /\ env' = e
            /\ vres' = By("verify_uploaded_prescription",
                          verify_uploaded_prescription(d, prescription, e))
    /\ hist' = [hist EXCEPT !.ops = @ + 1]
    /\ UNCHANGED <<reqs, prescription, token, ledger, dl, clock>>

(***************************************************************************)
(* Spec: the handlers one at a time (section 5: anchoring for one subject  *)
(* is serialized by the caller), with any outcome of every ledger write.   *)
(***************************************************************************)
Init ==
    /\ doc = NoDoc
    /\ env \in {MkEnv(TRUE, "none", NoId, QuietLedger, en) : en \in BOOLEAN}
    /\ prescription = MkRx(TRUE, EmptyStr, EmptyStr, FALSE, EmptyStr, Medicines(1))
    /\ vres = NoOutcome
    /\ SystemIdle

Next ==
    \/ DownloadStart
    \/ RegisterStep
    \/ RegisterReturn
    \/ RenderStep
    \/ FinalizeStep
    \/ FinalizeReturn
    \/ ServeStep
    \/ Tick
    \/ GeneratePrescriptionPdf
    \/ FixPrescriptionHashes
    \/ EditPrescription
    \/ VerifyUpload

Spec == Init /\ [][Next]_vars

\* a view, once called, runs to its return, and every ledger call it makes
\* returns or raises
SpecFair ==
    /\ Spec
    /\ WF_vars(RegisterStep)
    /\ WF_vars(RegisterReturn)
    /\ WF_vars(RenderStep)
    /\ WF_vars(FinalizeStep)
    /\ WF_vars(FinalizeReturn)
    /\ WF_vars(ServeStep)

(***************************************************************************)
(* SpecRetry: downloads of a token requested again and again for as long   *)
(* as its record has no transaction reference, under a ledger that does    *)
(* not refuse the registration for ever.                                   *)
(***************************************************************************)
DownloadAgain ==
    /\ dl.pc = "idle"
    /\ token.blockchain_tx_hash = EmptyStr
    /\ dl' = [pc |-> "register", tok |-> token, pdf_file |-> EmptyStr,
              pdf_hash |-> EmptyStr]
    /\ hist' = [hist EXCEPT !.ops = Min(@ + 1, MaxOps), !.fin = "none",
                            !.served = EmptyStr, !.writes = 0]
    /\ UNCHANGED <<reqs, doc, env, prescription, vres, token, ledger, clock>>

\* the registration write of a download is accepted
RegistrationAccepted == RegisterReturn /\ token'.blockchain_tx_hash # EmptyStr

InitRetry ==
    /\ doc = NoDoc
    /\ env = QuietEnv
    /\ prescription = NoRx
    /\ vres = NoOutcome
    /\ SystemIdle

NextRetry ==
    \/ DownloadAgain
    \/ RegisterStep
    \/ RegisterReturn
    \/ RenderStep
    \/ FinalizeStep
    \/ FinalizeReturn
    \/ ServeStep
    \/ Tick

\* downloads keep being requested, a view runs to its return, and a
\* registration that is tried again and again is accepted in the end
SpecRetry ==
    /\ InitRetry /\ [][NextRetry]_vars
    /\ WF_vars(DownloadAgain)
    /\ WF_vars(RegisterStep)
    /\ WF_vars(RegisterReturn)
    /\ WF_vars(RenderStep)
    /\ WF_vars(FinalizeStep)
    /\ WF_vars(FinalizeReturn)
    /\ WF_vars(ServeStep)
    /\ SF_vars(RegistrationAccepted)

(***************************************************************************)
(* extract_images_hash.  A document is the list, page by page, of the      *)
(* images page.get_images() returns, each image named by its data; broken  *)
(* are the images doc.extract_image raises on.                             *)
(***************************************************************************)
ImageKinds == 1..MaxImageKinds

MkImageDoc(o, xrefs, broken) ==
    [content |-> RawBytes(0), readable |-> TRUE, opens |-> o, pages |-> <<>>,
     idtext |-> <<>>, xrefs |-> xrefs, broken |-> broken]

\* hashlib.sha256(image_data).hexdigest()[:16]
ImageHash(img) == <<"sha256_16", img>>

\* the digests are hexadecimal strings of one length: their order is a total order
HashBefore(a, b) == a[2] < b[2]

RECURSIVE Flatten(_)
Flatten(ss) == IF ss = <<>> THEN <<>> ELSE Head(ss) \o Flatten(Tail(ss))

\* lines 159-173: the digests in page order, images that cannot be extracted skipped
image_hashes(d) ==
    LET all == Flatten(d.xrefs)
        kept == SelectSeq(all, LAMBDA img : img \notin d.broken)
    IN [i \in 1..Len(kept) |-> ImageHash(kept[i])]

\* the digests joined in the order the document lists them
extract_images_hash_Unsorted(d) ==
    IF ~d.opens \/ image_hashes(d) = <<>> THEN EmptyStr
    ELSE compute_pdf_hash(image_hashes(d))

\* lines 177-180: sha256 of "".join(sorted(image_hashes)), '' without images
extract_images_hash(d) ==
    IF ~d.opens \/ image_hashes(d) = <<>> THEN EmptyStr
    ELSE compute_pdf_hash(SortSeq(image_hashes(d), HashBefore))

ImageLists == SeqsUpTo(ImageKinds, MaxImages)

ImageDocs ==
    {MkImageDoc(o, x, b) :
        o \in BOOLEAN, x \in SeqsUpTo(ImageLists, MaxImagePages), b \in SUBSET {1}}

SwapAt(s, i) == [s EXCEPT ![i] = s[i + 1], ![i + 1] = s[i]]

\* the same images in another order: two neighbours of a page swapped, two
\* neighbouring pages swapped, or an image moved over a page break
Reorderings(d) ==
    LET x == d.xrefs
    IN {[d EXCEPT !.xrefs[p] = SwapAt(x[p], i)] :
            <<p, i>> \in {pi \in (1..Len(x)) \X (1..MaxImages) : pi[2] < Len(x[pi[1]])}}
       \cup {[d EXCEPT !.xrefs = SwapAt(x, p)] : p \in 1..(Len(x) - 1)}
       \cup {[d EXCEPT !.xrefs[p] = Tail(x[p]),
                        !.xrefs[p - 1] = Append(x[p - 1], Head(x[p]))] :
                p \in {k \in 2..Len(x) : x[k] # <<>> /\ Len(x[k - 1]) < MaxImages}}

InitImages ==
    /\ doc \in ImageDocs
    /\ env = QuietEnv
    /\ prescription = NoRx
    /\ vres = NoOutcome
    /\ SystemIdle

ImagesHashCall ==
    /\ vres = NoOutcome
    /\ vres' = By("extract_images_hash",
                  Outcome("fingerprint", extract_images_hash(doc), NoResult, "none"))
    /\ UNCHANGED <<doc, env, prescription, SystemVars>>

\* the document is scanned again: the fingerprint taken before is kept
Rescan ==
    /\ vres.view = "extract_images_hash"
    /\ doc' \in Reorderings(doc)
    /\ vres' = [vres EXCEPT !.data = "rescanned"]
    /\ UNCHANGED <<env, prescription, SystemVars>>

NextImages == ImagesHashCall \/ Rescan

SpecImages == InitImages /\ [][NextImages]_vars

(***************************************************************************)
(* SpecConcurrentVerify: verification requests for the one prescription,   *)
(* side by side.  A request is a view at one of its reads of the record    *)
(* store or of the ledger; rec is the prescription object the request      *)
(* fetched, how the way it was found.                                      *)
(***************************************************************************)
Requests == 1..MaxRequests

MkReq(kind, d, sid) ==
    [kind |-> kind, pc |-> "start", doc |-> d, sid |-> sid, rec |-> NoRx,
     how |-> "none", out |-> NoOutcome]

Finish(q, out) == [q EXCEPT !.pc = "done", !.out = out]

\* the fingerprint a request asks the ledger about
AskedHash(q) ==
    IF q.kind = "upload" THEN compute_pdf_hash(extract_pdf_content(q.doc))
    ELSE q.rec.pdf_hash

LedgerNow(q) == LedgerViewOf(AskedHash(q), env.ledger.up)

\* the record store saves the record as a verification found it and wrote it back
StoreAfterVerification_Backfill(p, res) ==
    IF res.method = "content_match" THEN [p EXCEPT !.pdf_hash = res.uploaded_hash]
    ELSE p

\* lines 347-358 of the view: the result is logged and rendered, nothing is saved
StoreAfterVerification(p, res) == p

\* upload: lines 250-272; public page: line 174 and the test of line 180
StartRequest(r) ==
    LET q == reqs[r]
        id == IF q.sid # NoId THEN q.sid ELSE get_prescription_by_id_from_pdf(q.doc)
    IN /\ q.pc = "start"
       /\ reqs' = [reqs EXCEPT ![r] =
             IF q.kind = "upload"
             THEN IF ~q.doc.readable THEN Finish(q, Raised("read_upload"))
                  ELSE IF id # NoId /\ FoundById(prescription, id)
                  THEN [q EXCEPT !.pc = "verify", !.rec = prescription,
                                 !.how = "found_by_id"]
                  ELSE [q EXCEPT !.pc = "probe"]
             ELSE IF ~prescription.exists THEN Finish(q, ErrorPage)
                  ELSE IF AsksLedger(prescription, env)
                  THEN [q EXCEPT !.pc = "probe", !.rec = prescription]
                  ELSE Finish([q EXCEPT !.rec = prescription], VerifyPage(FALSE, "none"))]
       /\ UNCHANGED <<doc, env, prescription, vres, token, ledger, dl, clock, hist>>

\* service.is_connected(): line 280 of the upload view, line 184 of the page
ProbeRequest(r) ==
    LET q == reqs[r]
    IN /\ q.pc = "probe"
       /\ reqs' = [reqs EXCEPT ![r] =
             IF LedgerNow(q).probe THEN [q EXCEPT !.pc = "lookup"]
             ELSE IF q.kind = "upload"
             THEN Finish(q, Outcome("redirect", "blockchain_not_available", NoResult,
                                    "none"))
             ELSE Finish(q, VerifyPage(FALSE, "none"))]
       /\ UNCHANGED <<doc, env, prescription, vres, token, ledger, dl, clock, hist>>

\* service.verify_prescription_hash: lines 281-283 and 319-336, lines 185-190
LookupRequest(r) ==
    LET q == reqs[r]
        lv == LedgerNow(q)
    IN /\ q.pc = "lookup"
       /\ reqs' = [reqs EXCEPT ![r] =
             IF lv.lookup = "raises"
             THEN Finish(q, IF q.kind = "upload" THEN Raised("ledger_lookup")
                            ELSE ErrorPage)
             ELSE IF q.kind = "public"
             THEN Finish(q, IF lv.lookup = "nothing" THEN VerifyPage(FALSE, "none")
                            ELSE VerifyPage(LedgerExists(lv), lv.lookup))
             ELSE IF lv.lookup = "exists_id" THEN [q EXCEPT !.pc = "by_hash"]
             ELSE IF lv.lookup = "exists_noid"
             THEN Finish(q, Outcome("redirect", "lookup_failed_enter_id", NoResult,
                                    "none"))
             ELSE Finish(q, Outcome("result", "hash_not_on_blockchain",
                                    HashNotFoundResult(AskedHash(q)), "none"))]
       /\ UNCHANGED <<doc, env, prescription, vres, token, ledger, dl, clock, hist>>

\* Prescription.objects.get(pdf_hash=uploaded_hash): lines 288-316
ByHashRequest(r) ==
    LET q == reqs[r]
    IN /\ q.pc = "by_hash"
       /\ reqs' = [reqs EXCEPT ![r] =
             IF FoundByHash(prescription, AskedHash(q))
             THEN [q EXCEPT !.pc = "verify", !.rec = prescription,
                            !.how = "found_by_hash"]
             ELSE Finish(q, Outcome("result", "none",
                                    BlockchainHashResult(AskedHash(q)), "exists_id"))]
       /\ UNCHANGED <<doc, env, prescription, vres, token, ledger, dl, clock, hist>>

\* verify_prescription_pdf(uploaded_file, prescription): lines 347-358
VerifyRequest(r) ==
    LET q == reqs[r]
        res == verify_prescription_pdf(q.doc, q.rec, env)
    IN /\ q.pc = "verify"
       /\ reqs' = [reqs EXCEPT ![r] = Finish(q, Outcome("result", "none", res, q.how))]
       /\ prescription' = StoreAfterVerification(prescription, res)
       /\ UNCHANGED <<doc, env, vres, token, ledger, dl, clock, hist>>

OriginalBytes == RawBytes(1)
OtherBytes == RawBytes(2)

ConcurrentDocs ==
    {MkDoc(OriginalBytes, TRUE, TRUE, <<TextPage>>, <<>>),
     MkDoc(OtherBytes, TRUE, TRUE, <<ScanPageLegible>>,
           <<MkIdText(RxId, "plain")>>),
     MkDoc(OtherBytes, TRUE, TRUE, <<TextPage>>, <<>>),
     MkDoc(OriginalBytes, FALSE, TRUE, <<>>, <<>>)}

ConcurrentRequests ==
    {MkReq("upload", d, sid) : d \in ConcurrentDocs, sid \in {NoId, RxId}}
        \cup {MkReq("public", NoDoc, NoId)}

AnchoredLedgers ==
    {<<>>,
     <<store_prescription_hash(compute_pdf_hash(OriginalBytes), PatientId, DoctorId,
                               <<"tx", 1>>)>>}

InitConcurrentVerify ==
    /\ doc = NoDoc
    /\ env \in {MkEnv(TRUE, "none", NoId, [QuietLedger EXCEPT !.up = up], TRUE) :
                    up \in BOOLEAN}
    /\ prescription \in UploadRecords
    /\ vres = NoOutcome
    /\ token = InitToken
    /\ ledger \in AnchoredLedgers
    /\ dl = IdleDl
    /\ clock = 0
    /\ hist = InitHist
    /\ reqs \in [Requests -> ConcurrentRequests]

NextConcurrentVerify ==
    \E r \in Requests :
        \/ StartRequest(r)
        \/ ProbeRequest(r)
        \/ LookupRequest(r)
        \/ ByHashRequest(r)
        \/ VerifyRequest(r)

SpecConcurrentVerify == InitConcurrentVerify /\ [][NextConcurrentVerify]_vars

(***************************************************************************)
(* SpecConcurrentDownload: download_consultation_token requests for the    *)
(* one token, side by side.  Each request works on the ConsultationToken   *)
(* instance it fetched (tok); token.save() and token.pdf_file.save(...,    *)
(* save=True) write every field of that instance to the record store.      *)
(***************************************************************************)
NewDownload == [pc |-> "start", tok |-> InitToken, pdf_hash |-> EmptyStr]

\* lines 414-415: consultation.consultation_token
FetchToken(r) ==
    /\ reqs[r].pc = "start"
    /\ reqs' = [reqs EXCEPT ![r] = [@ EXCEPT !.pc = "register", !.tok = token]]
    /\ UNCHANGED <<doc, env, prescription, vres, token, ledger, dl, clock, hist>>

\* lines 423-437
RegisterCall(r) ==
    /\ reqs[r].pc = "register"
    /\ reqs' = [reqs EXCEPT ![r] =
                  [@ EXCEPT !.pc = IF NeedsRegistration(reqs[r].tok)
                                   THEN "registering" ELSE "render"]]
    /\ UNCHANGED <<doc, env, prescription, vres, token, ledger, dl, clock, hist>>

\* lines 438-445
RegisterDone(r) ==
    /\ reqs[r].pc = "registering"
    /\ \E res \in TokenWriteResults :
         LET tok2 == RegisterToken(reqs[r].tok, res, NewTx)
         IN /\ reqs' = [reqs EXCEPT ![r] = [@ EXCEPT !.pc = "render", !.tok = tok2]]
            /\ token' = IF res.success \/ res.raises THEN tok2 ELSE token
            /\ ledger' = IF res.success
                         THEN Append(ledger,
                                     store_consultation_token_hash(
                                         registration_hash, PatientId, DoctorId, NewTx))
                         ELSE ledger
    /\ UNCHANGED <<doc, env, prescription, vres, dl, clock, hist>>

\* line 448
RenderCall(r) ==
    /\ reqs[r].pc = "render"
    /\ reqs' = [reqs EXCEPT ![r] =
                  [@ EXCEPT !.pc = "finalize",
                            !.pdf_hash = compute_pdf_hash(TokenPdf(reqs[r].tok, clock))]]
    /\ UNCHANGED <<doc, env, prescription, vres, token, ledger, dl, clock, hist>>

\* lines 451-458
FinalizeCall(r) ==
    LET q == reqs[r]
        tok2 == [q.tok EXCEPT !.pdf_hash = q.pdf_hash]
    IN /\ q.pc = "finalize"
       /\ IF NeedsFinalWrite(q.tok, q.pdf_hash)
          THEN /\ token' = tok2
               /\ \E available \in BOOLEAN :
                    reqs' = [reqs EXCEPT ![r] =
                               IF available
                               THEN [q EXCEPT !.pc = "finalizing", !.tok = tok2]
                               ELSE [q EXCEPT
                                       !.pc = AfterFinalWrite("unavailable"),
                                       !.tok = FinalizeToken(tok2, q.pdf_hash,
                                                             "unavailable")]]
          ELSE /\ reqs' = [reqs EXCEPT ![r] = [q EXCEPT !.pc = "serve"]]
               /\ UNCHANGED token
       /\ UNCHANGED <<doc, env, prescription, vres, ledger, dl, clock, hist>>

\* lines 459-498
FinalizeDone(r) ==
    LET q == reqs[r]
    IN /\ q.pc = "finalizing"
       /\ \E res \in FinalWriteResults \ {"unavailable"} :
            /\ reqs' = [reqs EXCEPT ![r] =
                          [q EXCEPT !.pc = AfterFinalWrite(res),
                                    !.tok = FinalizeToken(q.tok, q.pdf_hash, res)]]
            /\ ledger' = IF res = "sent"
                         THEN Append(ledger,
                                     FinalTokenWrite(q.pdf_hash, DoctorId, PatientId,
                                                     NewTx))
                         ELSE ledger
       /\ UNCHANGED <<doc, env, prescription, vres, token, dl, clock, hist>>

\* lines 501-509
ServeDownload(r) ==
    /\ reqs[r].pc = "serve"
    /\ token' = ServedToken(reqs[r].tok, TokenPdf(reqs[r].tok, clock))
    /\ reqs' = [reqs EXCEPT ![r] = [@ EXCEPT !.pc = "done", !.tok = token']]
    /\ UNCHANGED <<doc, env, prescription, vres, ledger, dl, clock, hist>>

InitConcurrentDownload ==
    /\ doc = NoDoc
    /\ env = QuietEnv
    /\ prescription = NoRx
    /\ vres = NoOutcome
    /\ token = InitToken
    /\ ledger = <<>>
    /\ dl = IdleDl
    /\ clock = 0
    /\ hist = InitHist
    /\ reqs = [r \in Requests |-> NewDownload]

NextConcurrentDownload ==
    \E r \in Requests :
        \/ FetchToken(r)
        \/ RegisterCall(r)
        \/ RegisterDone(r)
        \/ RenderCall(r)
        \/ FinalizeCall(r)
        \/ FinalizeDone(r)
        \/ ServeDownload(r)

SpecConcurrentDownload == InitConcurrentDownload /\ [][NextConcurrentDownload]_vars

(***************************************************************************)
(* Properties of verify_prescription_pdf (SpecVerifyPdf)                   *)
(***************************************************************************)
PdfVerified == vres.view = "verify_prescription_pdf"

UploadedHash == compute_pdf_hash(extract_pdf_content(doc))

InSeq(x, s) == \E i \in 1..Len(s) : s[i] = x

\* C1: an upload whose SHA-256 equals the record's non-empty pdf_hash gets
\* verified=true, method=exact_hash, hash_match=true, with no warning and
\* is_scanned left false, whether or not the document would classify as scanned.
C1_ExactHashTerminal ==
    (PdfVerified /\ doc.readable
        /\ prescription.pdf_hash # EmptyStr /\ prescription.pdf_hash = UploadedHash)
    => vres.result = MkResult(TRUE, "exact_hash", TRUE, {"message"}, UploadedHash,
                              prescription.pdf_hash, <<>>, FALSE, 0, 0)

C1_Witness ==
    /\ PdfVerified
    /\ vres.result.method = "exact_hash"
    /\ detect_if_scanned(doc).is_scanned
    /\ prescription.pdf_hash = UploadedHash

\* C2: an upload whose hash differs from the record's and which is classified
\* not scanned gets verified=false, method=hash_mismatch, hash_match=false and
\* at least one warning.
C2_TextNativeMismatch ==
    (PdfVerified /\ doc.readable /\ prescription.pdf_hash # UploadedHash
        /\ ~detect_if_scanned(doc).is_scanned)
    => /\ ~vres.result.verified
       /\ vres.result.method = "hash_mismatch"
       /\ ~vres.result.hash_match
       /\ Len(vres.result.warnings) >= 1

\* a text page that carries every scored string, with a wrong hash
C2_Witness ==
    /\ PdfVerified
    /\ vres.result.method = "hash_mismatch"
    /\ Len(doc.pages) = 1
    /\ doc.pages[1].words = Fields
    /\ prescription.pdf_hash # EmptyStr

ScoringReached ==
    /\ PdfVerified /\ doc.readable /\ prescription.pdf_hash # UploadedHash
    /\ detect_if_scanned(doc).is_scanned
    /\ ExtractedText(doc, env).text # <<>>
    /\ env.fault = "none"

\* C3: a mismatching scanned upload that yields text is verified by
\* content_match, with the warning that the hash differs because of scanning,
\* exactly when key_fields_found / total_key_fields is at least 70% (7 of 10
\* passes, 6 of 10 fails), and is content_mismatch, not verified, otherwise.
C3_ContentThreshold ==
    /\ ScoringReached =>
        LET r == vres.result
            passes == 100 * r.key_fields_found >= 70 * r.total_key_fields
        IN /\ r.total_key_fields >= 1
           /\ r.method = IF passes THEN "content_match" ELSE "content_mismatch"
           /\ r.verified = passes
           /\ passes => InSeq("hash_differs_due_to_scanning", r.warnings)
    /\ MatchPasses(7, 10)
    /\ ~MatchPasses(6, 10)

\* 3 of 4 scored fields found: verified; and the other side, 4 of 6: not verified
C3_Witness ==
    /\ ScoringReached
    /\ vres.result.key_fields_found = 3
    /\ vres.result.total_key_fields = 4
    /\ vres.result.method = "content_match"

\* the scored strings of the record that the extracted text lacks
AbsentFields ==
    ({PatientName, DoctorName, RxIdStr}
        \cup {MedName(i) : i \in 1..Min(3, Len(prescription.medicines))})
    \ TextWords(ExtractedText(doc, env).text)

\* C30: the scored fields are the patient name, the doctor name, the
\* prescription id and the first 3 medicines at most, so total_key_fields is
\* 3 plus the number of medicines up to 3, between 3 and 6; a mismatching
\* scanned upload is verified by content only if at most one scored field is
\* absent from the extracted text, and none when the prescription has no
\* medicine.
C30_ScoredFieldsBounded ==
    ScoringReached =>
        LET r == vres.result
        IN /\ r.total_key_fields = 3 + Min(3, Len(prescription.medicines))
           /\ r.total_key_fields \in 3..6
           /\ r.key_fields_found = r.total_key_fields - Cardinality(AbsentFields)
           /\ r.verified =>
                 /\ r.method = "content_match"
                 /\ Cardinality(AbsentFields) <= 1
                 /\ prescription.medicines = <<>> => AbsentFields = {}

\* a prescription of four medicines: six fields scored, one of them absent
C30_Witness ==
    /\ ScoringReached
    /\ Len(prescription.medicines) = 4
    /\ vres.result.total_key_fields = 6
    /\ Cardinality(AbsentFields) = 1
    /\ vres.result.verified

\* a mismatching upload classified as scanned from which no text comes
NoTextFromScan ==
    /\ PdfVerified /\ doc.readable /\ prescription.pdf_hash # UploadedHash
    /\ detect_if_scanned(doc).is_scanned
    /\ \/ env.fault = "extract"
       \/ \A i \in 1..Len(doc.pages) :
            /\ doc.pages[i].len = 0
            /\ doc.pages[i].ocr # "text" \/ ~env.ocr_available

\* C20: a mismatching upload classified as scanned whose extraction gives
\* no text, or fails, gets verified=false, method=ocr_failed and the warning
\* that no text could be extracted, whatever the record's names, id and
\* medicines are, also when they cannot be read.
C20_NoTextIsOcrFailed ==
    NoTextFromScan
    => /\ ~vres.result.verified
       /\ vres.result.method = "ocr_failed"
       /\ ~vres.result.hash_match
       /\ vres.result.is_scanned
       /\ InSeq("ocr_failed", vres.result.warnings)
       /\ vres.result.key_fields_found = 0

\* OCR raises on the only page, and the record's names cannot be read
C20_Witness ==
    /\ NoTextFromScan
    /\ env.fault = "fields"
    /\ env.ocr_available
    /\ doc.pages[1].ocr = "error"
    /\ Len(prescription.medicines) = MaxMeds
    /\ vres.result.method = "ocr_failed"

(***************************************************************************)
(* Properties of extract_text_from_pdf (SpecExtract)                       *)
(***************************************************************************)
Extracted == vres.view = "extract_text_from_pdf" /\ doc.readable /\ doc.opens

\* the pages without embedded text, those of them OCR could not be run on or
\* raised on, and those OCR read text from
NeedsOcr == {i \in 1..Len(doc.pages) : doc.pages[i].len = 0}

OcrFailed ==
    {i \in NeedsOcr : ~env.ocr_available \/ doc.pages[i].ocr \in {"render_error", "error"}}

OcrRead == {i \in NeedsOcr \ OcrFailed : doc.pages[i].ocr = "text"}

\* C21: extract_text_from_pdf does not fail because a page cannot be OCR'd:
\* the text holds, in page order, exactly the pages with embedded text and
\* the pages OCR read; the method is 'partial' whenever a page that needed OCR
\* could not be OCR'd, 'ocr' when OCR produced text, and 'text' only when
\* every page had embedded text.
C21_PartialOnOcrFailure ==
    Extracted =>
        LET text == vres.data
        IN /\ vres.kind = "extracted"
           /\ {text[k].page : k \in 1..Len(text)} = ((1..Len(doc.pages)) \ NeedsOcr) \cup OcrRead
           /\ \A k \in 1..(Len(text) - 1) : text[k].page < text[k + 1].page
           /\ OcrFailed # {} => vres.message = "partial"
           /\ (OcrFailed = {} /\ OcrRead # {}) => vres.message = "ocr"
           /\ vres.message = "text" => NeedsOcr = {}

(***************************************************************************)
(* Properties of get_prescription_by_id_from_pdf (SpecIds)                 *)
(***************************************************************************)
IdExtracted == vres.view = "get_prescription_by_id_from_pdf"

\* the places of the text where each pattern matches
LabelledAt == {i \in 1..Len(doc.idtext) : doc.idtext[i].form = "label"}

UnbrokenAt == {i \in 1..Len(doc.idtext) : doc.idtext[i].form \in {"label", "plain"}}

PrintedAt == 1..Len(doc.idtext)

Leftmost(S) == CHOOSE i \in S : \A j \in S : i <= j

\* C22: get_prescription_by_id_from_pdf returns the id after the label
\* 'Prescription ID:' when the labelled pattern matches, also with another id
\* earlier in the text; else the leftmost id in standard form; else the
\* leftmost id broken by whitespace, with the whitespace removed; and None
\* exactly when no pattern matches or the extraction fails.
C22_FirstPatternWins ==
    IdExtracted =>
        /\ vres.message =
              IF ~doc.opens \/ PrintedAt = {} THEN NoId
              ELSE IF LabelledAt # {} THEN doc.idtext[Leftmost(LabelledAt)].id
              ELSE IF UnbrokenAt # {} THEN doc.idtext[Leftmost(UnbrokenAt)].id
              ELSE doc.idtext[Leftmost(PrintedAt)].id
        /\ vres.message = NoId <=> (~doc.opens \/ PrintedAt = {})

\* a bare id, then an id broken by whitespace, then the labelled one
C22_Witness ==
    /\ IdExtracted
    /\ Len(doc.idtext) = 3
    /\ doc.idtext[1] = MkIdText(OtherId, "plain")
    /\ doc.idtext[2] = MkIdText(OtherId, "spaced")
    /\ doc.idtext[3] = MkIdText(RxId, "label")
    /\ vres.message = RxId

\* only ids broken by whitespace: the first, cleaned
C22_WitnessSpaced ==
    /\ IdExtracted
    /\ Len(doc.idtext) = 2
    /\ doc.idtext[1] = MkIdText(RxId, "label_spaced")
    /\ doc.idtext[2] = MkIdText(OtherId, "spaced")
    /\ vres.message = RxId

(***************************************************************************)
(* Properties of detect_if_scanned (SpecScan)                              *)
(***************************************************************************)
Classified == vres.view = "detect_if_scanned" /\ doc.opens

HalfImageHeavy == 2 * image_pages(doc) = Len(doc.pages)

MoreThanHalfImageHeavy == 2 * image_pages(doc) > Len(doc.pages)

\* C9 as stated: exactly half of the pages image-heavy is never scanned,
\* more than half always is.
C9_HalfIsNotScanned ==
    Classified =>
        /\ HalfImageHeavy => vres.message = "not_scanned"
        /\ MoreThanHalfImageHeavy => vres.message = "scanned"

\* C9 amended: with exactly half of the pages image-heavy the document is not
\* scanned exactly when its average text per page is at least 200 or it embeds
\* no image; with more than half it is scanned.
C9_HalfDecidedByAverage ==
    Classified =>
        /\ HalfImageHeavy =>
            (vres.message = "not_scanned"
                <=> \/ total_text_length(doc) >= 200 * Max(Len(doc.pages), 1)
                    \/ total_images(doc) = 0)
        /\ MoreThanHalfImageHeavy => vres.message = "scanned"

C9_Witness ==
    /\ Classified
    /\ HalfImageHeavy
    /\ Len(doc.pages) = 2
    /\ vres.message = "not_scanned"

\* C23: a document without an embedded image on any page is never classified
\* as scanned, whatever its text lengths and page count, and a document of no
\* page is classified not scanned from its counts, with no error.
C23_NoImagesNotScanned ==
    (/\ vres.view = "detect_if_scanned"
     /\ \A i \in 1..Len(doc.pages) : doc.pages[i].images = 0)
        => /\ vres.message = "not_scanned"
           /\ (doc.opens /\ doc.pages = <<>>) => vres.data = "details"

\* two pages with almost no text and no image
C23_Witness ==
    /\ Classified
    /\ Len(doc.pages) = 2
    /\ \A i \in 1..2 : doc.pages[i].images = 0 /\ doc.pages[i].len < PageTextThreshold
    /\ vres.message = "not_scanned"

\* C17: detect_if_scanned answers scanned exactly when the document opens
\* and either more than half of max(pages, 1) pages are image-heavy (stripped
\* text below 100 characters and at least one image) or the text per page
\* averages below 200 characters with at least one image in the document; a
\* document that cannot be opened or analysed is not scanned.
C17_ScanRule ==
    vres.view = "detect_if_scanned" =>
        LET n == Len(doc.pages)
            pages == IF n = 0 THEN 1 ELSE n
            heavy == {i \in 1..n : doc.pages[i].len < 100 /\ doc.pages[i].images >= 1}
            text == SumSeq([i \in 1..n |-> doc.pages[i].len])
            images == SumSeq([i \in 1..n |-> doc.pages[i].images])
            scanned == \/ 2 * Cardinality(heavy) > pages
                       \/ text < 200 * pages /\ images > 0
        IN vres.message = IF doc.opens /\ scanned THEN "scanned" ELSE "not_scanned"

\* no image-heavy page, an image, and exactly 200 characters per page
C17_Witness ==
    /\ Classified
    /\ image_pages(doc) = 0
    /\ total_images(doc) > 0
    /\ total_text_length(doc) = 200 * Len(doc.pages)
    /\ Len(doc.pages) = 2
    /\ vres.message = "not_scanned"

(***************************************************************************)
(* Properties of the verification views (SpecUpload)                       *)
(***************************************************************************)
Uploaded == vres.view = "verify_uploaded_prescription"

PublicPage == vres.view = "verify_prescription"

\* the id the view looks the record up by
LookupId ==
    IF env.supplied_id # NoId THEN env.supplied_id
    ELSE get_prescription_by_id_from_pdf(doc)

ResolvedById == LookupId # NoId /\ prescription.exists /\ LookupId = RxId

\* the view reaches the ledger
UploadAsksLedger ==
    /\ Uploaded /\ doc.readable
    /\ ~(LookupId # NoId /\ env.fault = "store_id")
    /\ ~ResolvedById

PublicAsksLedger ==
    /\ PublicPage /\ prescription.exists /\ env.fault # "store_id"
    /\ prescription.pdf_hash # EmptyStr /\ env.enabled

ServiceUnavailable == vres.kind = "redirect" /\ vres.message = "blockchain_not_available"

\* what the same call gives when the ledger is reached and has no such fingerprint
AbsentView == [up |-> TRUE, probe |-> TRUE, lookup |-> "absent"]

OutcomeWhenAbsent ==
    IF Uploaded
    THEN By("verify_uploaded_prescription",
            verify_uploaded_prescription(doc, prescription,
                                         [env EXCEPT !.ledger = AbsentView]))
    ELSE By("verify_prescription",
            verify_prescription(prescription, [env EXCEPT !.ledger = AbsentView]))

\* C4: when a verification view asks the ledger and the ledger cannot be
\* reached, the outcome is the service-unavailable one: no result with
\* verified=true, no hash_not_found result, and not the outcome given for a
\* fingerprint absent from a reachable ledger.
C4_UnreachableIsSeparate ==
    ((UploadAsksLedger \/ PublicAsksLedger) /\ ~env.ledger.up)
    => /\ ServiceUnavailable
       /\ ~(vres.kind = "result" /\ vres.result.verified)
       /\ ~(vres.kind = "result" /\ vres.result.method = "hash_not_found")
       /\ vres # OutcomeWhenAbsent

\* a collaborator of the call failed
CollaboratorFailed ==
    \/ ~doc.readable
    \/ ~doc.opens
    \/ LookupId # NoId /\ env.fault = "store_id"

\* C5: a verification call returns a Result whatever fails, and a failure of
\* a collaborator is reported as method=error, verified=false, with the
\* exception text in details and warnings.
C5_NeverRaises ==
    (Uploaded \/ PdfVerified)
    => /\ vres.kind # "raised"
       /\ (Uploaded /\ CollaboratorFailed)
            => /\ vres.kind = "result"
               /\ vres.result.method = "error"
               /\ ~vres.result.verified
               /\ "error" \in vres.result.details
               /\ InSeq("error", vres.result.warnings)

\* the upload was read and the record was found by the supplied or extracted id
FoundRecordById ==
    /\ Uploaded /\ doc.readable
    /\ env.fault # "store_id"
    /\ ResolvedById

\* the anchoring a record can have: never anchored, sent, confirmed
Anchorings == {[tx |-> EmptyStr, v |-> FALSE]} \cup [tx : {<<"tx", 1>>}, v : BOOLEAN]

\* C28: when verify_uploaded_prescription finds the record by id, the outcome
\* is the result of verify_prescription_pdf on the upload and that record, and
\* it is the same for every state of the ledger (unreachable, failing, with or
\* without the fingerprint) and for every anchoring of the record.
C28_FoundByIdIgnoresLedger ==
    FoundRecordById =>
        /\ vres.kind = "result"
        /\ vres.result = verify_prescription_pdf(doc, prescription, env)
        /\ \A lv \in LedgerViews, a \in Anchorings :
              vres = By("verify_uploaded_prescription",
                        verify_uploaded_prescription(
                            doc,
                            [prescription EXCEPT !.blockchain_tx_hash = a.tx,
                                                 !.is_verified = a.v],
                            [env EXCEPT !.ledger = lv]))

\* a record found by id and verified by its exact fingerprint while the
\* ledger cannot be reached
C28_Witness ==
    /\ FoundRecordById
    /\ ~env.ledger.up /\ ~env.ledger.probe
    /\ vres.kind = "result"
    /\ vres.result.verified
    /\ vres.result.method = "exact_hash"

\* no record by id, none by fingerprint, and the reached ledger has the fingerprint
LedgerOnlyProof ==
    /\ UploadAsksLedger
    /\ env.fault = "none"
    /\ ~(prescription.exists /\ prescription.pdf_hash = UploadedHash)
    /\ env.ledger.up /\ env.ledger.lookup \in {"exists_id", "exists_noid"}

\* C10: with no record resolved by id or by fingerprint and the fingerprint
\* on the reached ledger, the outcome is verified=true, method=blockchain_hash,
\* hash_match=true with the warning that the local record is absent, whatever
\* the shape of the ledger's answer.
C10_LedgerOnlyProofVerifies ==
    LedgerOnlyProof
    => /\ vres.kind = "result"
       /\ vres.result.verified
       /\ vres.result.method = "blockchain_hash"
       /\ vres.result.hash_match
       /\ InSeq("not_in_local_database", vres.result.warnings)

\* the id lookup ended without a record and the reached ledger lacks the hash
NotFoundAnywhere ==
    /\ UploadAsksLedger
    /\ env.ledger.up /\ env.ledger.lookup = "absent"

\* C11: when verify_uploaded_prescription finds no record by id and the
\* reachable ledger reports the uploaded fingerprint absent, the outcome is a
\* result with verified=false, method=hash_not_found, hash_match=false and the
\* may-be-fraudulent warning, and verify_prescription_pdf has not been run.
C11_HashNotFound ==
    NotFoundAnywhere
    => /\ vres.kind = "result"
       /\ ~vres.result.verified
       /\ vres.result.method = "hash_not_found"
       /\ ~vres.result.hash_match
       /\ InSeq("may_be_fraudulent", vres.result.warnings)
       /\ vres.result.uploaded_hash = UploadedHash
       /\ vres.data \notin {"found_by_id", "found_by_hash"}

\* an id of no record, while the record store holds the very fingerprint
C11_Witness ==
    /\ NotFoundAnywhere
    /\ LookupId = OtherId
    /\ prescription.exists /\ prescription.pdf_hash = UploadedHash
    /\ vres.result.method = "hash_not_found"

\* C12: every result returned by verify_prescription_pdf or built by
\* verify_uploaded_prescription has a method other than 'unknown', and every
\* result with verified=false has at least one warning, the error path included.
C12_NoSilentFailure ==
    ((Uploaded \/ PdfVerified) /\ vres.kind = "result")
    => /\ vres.result.method \notin {"unknown", "none"}
       /\ ~vres.result.verified => Len(vres.result.warnings) >= 1

\* the error path: the upload cannot be read
C12_Witness ==
    /\ PdfVerified
    /\ ~doc.readable
    /\ vres.result.method = "error"
    /\ ~vres.result.verified

(***************************************************************************)
(* Properties of the anchoring flows (Spec)                                *)
(***************************************************************************)
\* C6: once the registration write of download_consultation_token has
\* succeeded, the token record keeps a non-empty blockchain_tx_hash and the
\* confirmation flag the ledger returned, in every later state, whatever the
\* finalization write does.
C6_RegistrationKept ==
    hist.reg_done
    => /\ token.blockchain_tx_hash # EmptyStr
       /\ token.blockchain_tx_hash = hist.reg_tx
       /\ token.is_verified = hist.reg_confirmed

\* a download that registered, whose finalization write raised, has been served
C6_Witness ==
    /\ hist.reg_done
    /\ hist.fin = "raises"
    /\ dl.pc = "idle"
    /\ hist.served # EmptyStr

TokenWrites == SelectSeq(ledger, LAMBDA w : w.kind = "token")

\* the fingerprint of the last write the ledger accepted for the token
LastAnchored ==
    IF TokenWrites = <<>> THEN EmptyStr ELSE TokenWrites[Len(TokenWrites)].pdf_hash

\* C7: when a download has completed, the fingerprint printed in the PDF that
\* was persisted and served is the fingerprint of the last ledger write
\* accepted for the token, also when the finalization write failed or was
\* skipped.
C7_ServedMatchesAnchored ==
    (dl.pc = "idle" /\ hist.served # EmptyStr)
    => EmbeddedHash(hist.served) = LastAnchored

(***************************************************************************)
(* Properties of extract_images_hash (SpecImages)                          *)
(***************************************************************************)
\* C15: the content fingerprint taken of a document equals the content
\* fingerprint of every document that embeds the same images in another
\* order, within a page or across pages.
C15_OrderIndependent ==
    vres.view = "extract_images_hash" => vres.message = extract_images_hash(doc)

\* two different images whose order was changed, with a fingerprint
C15_Witness ==
    /\ vres.view = "extract_images_hash"
    /\ vres.data = "rescanned"
    /\ vres.message # EmptyStr
    /\ Len(doc.xrefs) = 2
    /\ doc.xrefs[1] = <<2, 1>>
    /\ doc.broken = {}

(***************************************************************************)
(* Properties of concurrent verification (SpecConcurrentVerify)            *)
(***************************************************************************)
\* what the request returns when it runs alone on the record and the ledger
Alone(q) ==
    IF q.kind = "upload"
    THEN verify_uploaded_prescription(
             q.doc, prescription,
             [env EXCEPT !.supplied_id = q.sid,
                         !.ledger = LedgerViewOf(
                                        compute_pdf_hash(extract_pdf_content(q.doc)),
                                        env.ledger.up)])
    ELSE verify_prescription(
             prescription,
             [env EXCEPT !.ledger = LedgerViewOf(prescription.pdf_hash, env.ledger.up)])

\* C14: no step of a verification request changes the prescription record,
\* the token record or the ledger, and every request that has finished, under
\* any interleaving with the other requests, holds the outcome it has when run
\* alone on the same record and ledger.
C14_VerificationReadOnly ==
    /\ [][/\ prescription' = prescription
           /\ token' = token
           /\ ledger' = ledger]_vars
    /\ [](\A r \in DOMAIN reqs : reqs[r].pc = "done" => reqs[r].out = Alone(reqs[r]))

\* both requests done, one verified by content and one by the exact hash
C14_Witness ==
    /\ reqs # NoReqs
    /\ \A r \in Requests : reqs[r].pc = "done"
    /\ reqs[1].out.result.method = "content_match"
    /\ reqs[2].out.result.method = "exact_hash"

\* C16: every download_consultation_token request for an existing token ends
\* by serving a PDF, whatever the registration write and the finalization
\* write did (accepted, rejected, raised, service not reachable).
C16_DownloadServes ==
    (dl.pc = "register") ~> (dl.pc = "idle" /\ hist.served # EmptyStr)

\* served although the registration write raised: no reference, no second write
C16_Witness ==
    /\ dl.pc = "idle"
    /\ hist.served # EmptyStr
    /\ ~hist.reg_done
    /\ token.blockchain_tx_hash = EmptyStr
    /\ hist.fin = "skipped"

\* step 3 has been passed: the second write was tried or skipped
FinalizePassed == dl.pc = "serve"

RegistrationCalled == dl.pc = "register" /\ dl'.pc = "registering"

\* the write the ledger accepted under the reference tx
WriteOf(tx) == ledger[CHOOSE i \in 1..Len(ledger) : ledger[i].tx = tx]

\* C24: over any sequence of downloads of a token, with any outcome of the
\* ledger writes, the registration write is called only while the record has no
\* transaction reference; a reference on the record never changes again; and
\* the reference on the record is that of a registration write, which carries
\* the placeholder fingerprint and is not tagged final, never that of a
\* finalization write.
C24_ReferenceIsRegistration ==
    /\ [][RegistrationCalled => token.blockchain_tx_hash = EmptyStr]_vars
    /\ [][token.blockchain_tx_hash # EmptyStr
            => token'.blockchain_tx_hash = token.blockchain_tx_hash]_vars
    /\ [](token.blockchain_tx_hash # EmptyStr
            => /\ \E i \in 1..Len(ledger) : ledger[i].tx = token.blockchain_tx_hash
               /\ WriteOf(token.blockchain_tx_hash).kind = "token"
               /\ ~WriteOf(token.blockchain_tx_hash).final
               /\ WriteOf(token.blockchain_tx_hash).pdf_hash = registration_hash
               /\ token.blockchain_tx_hash = hist.reg_tx)

\* after a second download: two finalization writes were accepted under their
\* own references and the record still holds the first reference
C24_Witness ==
    /\ dl.pc = "idle"
    /\ hist.served # EmptyStr
    /\ Len(SelectSeq(ledger, LAMBDA w : w.kind = "token" /\ w.final)) = 2
    /\ token.blockchain_tx_hash = hist.reg_tx
    /\ token.blockchain_tx_hash # ledger[Len(ledger)].tx

\* the registration writes the ledger accepted, the finalization writes
Registrations == SelectSeq(ledger, LAMBDA w : w.kind = "token" /\ ~w.final)

Finalizations == SelectSeq(ledger, LAMBDA w : w.kind = "token" /\ w.final)

AllDownloadsDone == reqs # NoReqs /\ \A r \in DOMAIN reqs : reqs[r].pc = "done"

\* C25: with two download requests for one token side by side, the ledger
\* gets at most one registration write, and when both requests are done the
\* record holds the reference of that registration and a fingerprint that a
\* finalization write of one of the requests carried.
C25_OneRegistration ==
    /\ Len(Registrations) <= 1
    /\ AllDownloadsDone =>
          /\ Len(Registrations) = 1 => token.blockchain_tx_hash = Registrations[1].tx
          /\ token.pdf_hash # EmptyStr =>
                \E i \in 1..Len(Finalizations) : Finalizations[i].pdf_hash = token.pdf_hash

\* C27: whatever generate_prescription_pdf and fix_prescription_hashes runs
\* came before, with any outcome of their ledger writes, a prescription with
\* is_verified set carries a pdf_hash the ledger accepted, and its
\* blockchain_tx_hash is the reference of the write that carried that
\* fingerprint.
C27_VerifiedMeansAnchored ==
    prescription.is_verified =>
        \E i \in 1..Len(ledger) :
            /\ ledger[i].kind = "prescription"
            /\ ledger[i].pdf_hash = prescription.pdf_hash
            /\ ledger[i].tx = prescription.blockchain_tx_hash

\* the step that saves and serves the re-render
Served == dl.pc = "serve" /\ dl'.pc = "idle"

\* C26: in a download the fingerprint of the re-render that is saved and
\* served is not what the record or the ledger gets: after step 3 was taken
\* the record's pdf_hash is the fingerprint of the intermediate render, an
\* accepted finalization write carries that fingerprint, a skipped step 3
\* leaves pdf_hash as it was, and pdf_hash (or the finalization write) equals
\* the fingerprint of the served file only if the served file is the
\* intermediate render byte for byte.
C26_FinalHashUnused ==
    [][Served =>
         LET final_hash == compute_pdf_hash(token'.pdf_file)
         IN /\ dl.pdf_hash = compute_pdf_hash(dl.pdf_file)
            /\ hist.fin \in FinalWriteResults => token'.pdf_hash = dl.pdf_hash
            /\ hist.fin = "skipped" => token'.pdf_hash = token.pdf_hash
            /\ hist.fin = "sent" =>
                  /\ ledger[Len(ledger)].final
                  /\ ledger[Len(ledger)].pdf_hash = dl.pdf_hash
                  /\ ledger[Len(ledger)].pdf_hash = final_hash
                        => token'.pdf_file = dl.pdf_file
            /\ token'.pdf_hash = final_hash => token'.pdf_file = dl.pdf_file]_vars

\* a served download whose finalization write was accepted: the record and
\* the ledger hold a fingerprint that is not the one of the served file
C26_Witness ==
    /\ dl.pc = "idle"
    /\ hist.served # EmptyStr
    /\ hist.fin = "sent"
    /\ token.pdf_file = hist.served
    /\ token.pdf_hash = ledger[Len(ledger)].pdf_hash
    /\ token.pdf_hash # compute_pdf_hash(token.pdf_file)

\* a download was served while the record had no transaction reference
ServedUnregistered ==
    /\ dl.pc = "idle"
    /\ hist.served # EmptyStr
    /\ token.blockchain_tx_hash = EmptyStr

\* C29: a download whose registration write fails or cannot be made attempts
\* no finalization write, leaves pdf_hash as it was, and still renders and
\* serves the PDF, printed without a transaction reference; a download that
\* finds the record without a reference calls the registration write again;
\* and, with downloads requested again and again and a ledger that accepts a
\* registration in the end, the record gets a transaction reference.
C29_RegistrationRetried ==
    /\ [][(Served /\ dl.tok.blockchain_tx_hash = EmptyStr) =>
            /\ hist.fin = "skipped"
            /\ token'.pdf_hash = token.pdf_hash
            /\ token'.pdf_file = TokenPdf(token', clock)
            /\ token'.pdf_file[2] = EmptyStr
            /\ token'.blockchain_tx_hash = EmptyStr]_vars
    /\ [][(dl.pc = "register" /\ dl.tok.blockchain_tx_hash = EmptyStr /\ dl' # dl)
            => RegistrationCalled]_vars
    /\ (ServedUnregistered ~> token.blockchain_tx_hash # EmptyStr)

\* the third download of a token whose first two registrations failed got
\* the reference
C29_Witness ==
    /\ hist.ops = 3
    /\ dl.pc = "idle"
    /\ hist.served # EmptyStr
    /\ hist.reg_done
    /\ token.blockchain_tx_hash = hist.reg_tx
    /\ token.blockchain_tx_hash # EmptyStr
    /\ Len(Registrations) = 1

\* the step that calls the second write
FinalWriteCalled == dl.pc = "finalize" /\ dl'.pc = "finalizing"

\* C19: one download calls at most two ledger writes and never has more than
\* one of them outstanding; the finalization write is called only when no
\* write is outstanding and a registration write, of this download or of an
\* earlier one, has returned the transaction reference the record holds.
C19_WritesInSequence ==
    /\ [](hist.writes <= 2 /\ hist.outstanding <= 1)
    /\ [][FinalWriteCalled =>
            /\ hist.outstanding = 0
            /\ hist.reg_done
            /\ dl.tok.blockchain_tx_hash = hist.reg_tx
            /\ dl.tok.blockchain_tx_hash # EmptyStr]_vars

\* both writes of one download called, the second one outstanding
C19_Witness ==
    /\ dl.pc = "finalizing"
    /\ hist.writes = 2
    /\ hist.outstanding = 1

RawIds == {DoctorId, PatientId}

PrescriptionConfirmed ==
    prescription.is_verified /\ prescription.blockchain_tx_hash # EmptyStr

TokenConfirmed == token.is_verified /\ token.blockchain_tx_hash # EmptyStr

\* C8: no step changes the stored fingerprint or the transaction reference of
\* a confirmed record, except the token step that replaces the registration
\* placeholder (the record's pdf_hash still empty) by the document fingerprint.
C8_ConfirmedImmutable ==
    [][/\ PrescriptionConfirmed
            => /\ prescription'.pdf_hash = prescription.pdf_hash
               /\ prescription'.blockchain_tx_hash = prescription.blockchain_tx_hash
       /\ TokenConfirmed
            => /\ token'.blockchain_tx_hash = token.blockchain_tx_hash
               /\ \/ token'.pdf_hash = token.pdf_hash
                  \/ token.pdf_hash = EmptyStr]_vars

====
